---- MODULE Spec2Model ----
(***************************************************************************)
(* Model of scripts/collect_stats.py: the organisation statistics          *)
(* collector.  One run of main() enumerates the repositories of the        *)
(* organisation (GraphQL, cursor pagination), fetches the commit history   *)
(* of every repository that is neither archived nor disabled (REST, link   *)
(* pagination), aggregates the commits per repository and per author,      *)
(* builds the two leaderboards and writes public/stats.json.               *)
(*                                                                         *)
(* Text values that the code inspects character by character (repository  *)
(* names, topics, track labels) are sequences of one-character strings.    *)
(* Timestamps are ISO-8601 strings of one fixed format in the code, which  *)
(* compares them as strings; they are positive integers here, ordered the  *)
(* same way.                                                               *)
(***************************************************************************)
EXTENDS Integers, Sequences, FiniteSets, TLC

VARIABLES
    track_map,          \* module global track_map: lower-cased repo name -> track
    provider,           \* which hosted organisation the upstream API serves
    pc,                 \* position of main(): "list", "repos", "commits", "done", "failed"
    cursor,             \* list_org_repos: cursor of the next GraphQL request
    repos,              \* list_org_repos: repos collected so far / returned
    idx,                \* main: number of entries of repos the for loop has left behind
    url,                \* commit_activity: url (and params) of the next REST request
    commits,            \* commit_activity: commits collected so far / returned
    org_stats,          \* main: org_stats (repos_total, repos)
    repo_activity,      \* main: repo_activity
    contributor_totals, \* main: contributor_totals, in insertion order
    file,               \* public/stats.json: <<>> when absent, <<document>> when written
    gql_log,            \* history: GraphQL requests of this run with their responses
    rest_log,           \* history: REST requests of the current commit_activity call
    fetched,            \* history: names of the repos commit_activity was called for
    last_call,          \* history: how the latest commit_activity call ended
    authors_seen,       \* history: the author of every commit aggregated, in order
    conflicts,          \* history: the calls answered 409, and whether commits were dropped
    probe,              \* arguments of a direct call of infer_track
    probe_out           \* its result

vars == <<track_map, provider, pc, cursor, repos, idx, url, commits, org_stats,
          repo_activity, contributor_totals, file, gql_log, rest_log, fetched,
          last_call, authors_seen, conflicts, probe, probe_out>>

(***************************************************************************)
(* Bounds of the model.                                                    *)
(***************************************************************************)
MaxRepoPages == 2       \* GraphQL pages the upstream serves in one run
MaxCommitPages == 2     \* REST pages the upstream serves for one repository
MaxTopics == 2          \* topics of the repository infer_track is probed with

(***************************************************************************)
(* Program constants.                                                      *)
(***************************************************************************)
TopRepos == 10          \* [:10]
TopContributors == 15   \* [:15]
NullCursor == 0         \* cursor = None
NoLink == 0             \* no "next" link in the response
NullDate == 0           \* None (last_commit_iso) / null (pushedAt)
NotAvailable == -1      \* the literal "N/A"

None == <<"None">>      \* Python's None as a value of infer_track
Unknown == "unknown"

TrackPrefix == <<"t", "r", "a", "c", "k", "-">>

(***************************************************************************)
(* str.startswith, str.replace, str.lower                                  *)
(***************************************************************************)
StartsWith(s, p) == Len(s) >= Len(p) /\ SubSeq(s, 1, Len(p)) = p

RECURSIVE Replace(_, _, _)
Replace(s, old, new) ==
    IF s = <<>> THEN <<>>
    ELSE IF StartsWith(s, old)
         THEN new \o Replace(SubSeq(s, Len(old) + 1, Len(s)), old, new)
         ELSE <<Head(s)>> \o Replace(Tail(s), old, new)

LowerChar(c) ==
    CASE c = "A" -> "a"
      [] c = "B" -> "b"
      [] c = "C" -> "c"
      [] c = "R" -> "r"
      [] c = "W" -> "w"
      [] OTHER -> c

Lower(s) == [i \in DOMAIN s |-> LowerChar(s[i])]

(***************************************************************************)
(* Loading track_map.yaml: raw is the parsed file, a sequence of           *)
(* [track, repos] in file order (<<>> when the file is absent or empty).   *)
(***************************************************************************)
RECURSIVE LoadRepos(_, _, _)
LoadRepos(map, track, rs) ==
    IF rs = <<>> THEN map
    ELSE LoadRepos((Lower(Head(rs)) :> track) @@ map, track, Tail(rs))

RECURSIVE LoadTrackMap(_, _)
LoadTrackMap(map, raw) ==
    IF raw = <<>> THEN map
    ELSE LoadTrackMap(LoadRepos(map, Head(raw).track, Head(raw).repos), Tail(raw))

EmptyMap == [k \in {} |-> None]

MapGet(map, k) == IF k \in DOMAIN map THEN map[k] ELSE None

(***************************************************************************)
(* infer_track                                                             *)
(***************************************************************************)
RECURSIVE FirstTrackTopic(_)
FirstTrackTopic(topics) ==
    IF topics = <<>> THEN <<>>
    ELSE IF StartsWith(Head(topics), TrackPrefix) THEN <<Head(topics)>>
         ELSE FirstTrackTopic(Tail(topics))

infer_track(repo_name, topics) ==
    LET hit == FirstTrackTopic(topics)
    IN  IF hit # <<>> THEN Replace(hit[1], TrackPrefix, <<>>)
        ELSE MapGet(track_map, Lower(repo_name))

(***************************************************************************)
(* JSON objects are records; dict.get(key, default)                        *)
(***************************************************************************)
EmptyDict == [k \in {} |-> ""]

DictGet(d, k, default) == IF k \in DOMAIN d THEN d[k] ELSE default

(***************************************************************************)
(* Aggregation of one repository's commits (main, the for c in commits     *)
(* loop).  A dict is the sequence of its items in insertion order.         *)
(***************************************************************************)
\* author = (c.get("author") or {}).get("login")
\*          or (c.get("commit") or {}).get("author", {}).get("name", "unknown")
AuthorOf(c) ==
    LET login == DictGet(c.author, "login", "")
    IN  IF login # "" THEN login
        ELSE DictGet(DictGet(c.commit, "author", EmptyDict), "name", Unknown)

\* faulty variant: d[k] = v
BumpAssign(d, k, v) ==
    IF \E i \in DOMAIN d : d[i].login = k
    THEN [i \in DOMAIN d |->
             IF d[i].login = k THEN [d[i] EXCEPT !.commits = v] ELSE d[i]]
    ELSE Append(d, [login |-> k, commits |-> v])

\* d[k] += v on a defaultdict(int)
Bump(d, k, v) ==
    IF \E i \in DOMAIN d : d[i].login = k
    THEN [i \in DOMAIN d |->
             IF d[i].login = k THEN [d[i] EXCEPT !.commits = @ + v] ELSE d[i]]
    ELSE Append(d, [login |-> k, commits |-> v])

RECURSIVE CountByAuthor(_, _)
CountByAuthor(by_author, cs) ==
    IF cs = <<>> THEN by_author
    ELSE CountByAuthor(Bump(by_author, AuthorOf(Head(cs)), 1), Tail(cs))

\* faulty variant: last_commit_iso = dt for every commit
LastCommitNoCompare(last_commit_iso, cs) ==
    IF cs = <<>> THEN last_commit_iso ELSE cs[Len(cs)].commit.author.date

\* if (not last_commit_iso) or (dt > last_commit_iso): last_commit_iso = dt
RECURSIVE LastCommit(_, _)
LastCommit(last_commit_iso, cs) ==
    IF cs = <<>> THEN last_commit_iso
    ELSE LET dt == Head(cs).commit.author.date
         IN  LastCommit(IF last_commit_iso = NullDate \/ dt > last_commit_iso
                        THEN dt ELSE last_commit_iso,
                        Tail(cs))

(***************************************************************************)
(* sorted(entries, key=commits, reverse=True): a stable sort, so an entry  *)
(* goes behind every entry already placed whose count is not smaller.      *)
(***************************************************************************)
\* faulty variant: an unstable sort, equal counts end up in reverse order
InsertDescBeforeEqual(x, s) ==
    LET ahead == {i \in DOMAIN s : s[i].commits > x.commits}
        n == Cardinality(ahead)
    IN  SubSeq(s, 1, n) \o <<x>> \o SubSeq(s, n + 1, Len(s))

InsertDesc(x, s) ==
    LET ahead == {i \in DOMAIN s : s[i].commits >= x.commits}
        n == Cardinality(ahead)
    IN  SubSeq(s, 1, n) \o <<x>> \o SubSeq(s, n + 1, Len(s))

RECURSIVE SortInto(_, _)
SortInto(acc, rest) ==
    IF rest = <<>> THEN acc
    ELSE SortInto(InsertDesc(Head(rest), acc), Tail(rest))

SortedDesc(entries) == SortInto(<<>>, entries)

Take(s, n) == SubSeq(s, 1, IF Len(s) < n THEN Len(s) ELSE n)

\* last_commit_iso or r["pushedAt"] or "N/A"
LastCommitAt(last_commit_iso, r) ==
    IF last_commit_iso # NullDate THEN last_commit_iso
    ELSE IF r.pushedAt # NullDate THEN r.pushedAt
    ELSE NotAvailable

RepoInfo(r, cs) ==
    [name           |-> r.name,
     full           |-> r.full,
     topics         |-> r.topics,
     track          |-> infer_track(r.name, r.topics),
     commits_count  |-> Len(cs),
     contributors   |-> SortedDesc(CountByAuthor(<<>>, cs)),
     last_commit_at |-> LastCommitAt(LastCommit(NullDate, cs), r)]

\* faulty variant: contributor_totals starts afresh for every repository
AddTotalsAfresh(totals, by_author) == by_author

\* for k, v in by_author.items(): contributor_totals[k] += v
RECURSIVE AddTotals(_, _)
AddTotals(totals, by_author) ==
    IF by_author = <<>> THEN totals
    ELSE AddTotals(Bump(totals, Head(by_author).login, Head(by_author).commits),
                   Tail(by_author))

(***************************************************************************)
(* Leaderboards                                                            *)
(***************************************************************************)
TopReposBoard(activity) ==
    Take(SortedDesc([i \in DOMAIN activity |->
                        [repo |-> activity[i][1], commits |-> activity[i][2]]]),
         TopRepos)

\* faulty variant: the [:15] is missing
TopContributorsUncut(totals) == SortedDesc(totals)

TopContributorsBoard(totals) == Take(SortedDesc(totals), TopContributors)

\* faulty variant: the disabled flag is not looked at
SkippedIfArchived(r) == r.archived

Skipped(r) == r.archived \/ r.disabled

(***************************************************************************)
(* The upstream API.  A response is drawn from what the provider can       *)
(* answer to the request at hand: the GraphQL answer depends on the cursor *)
(* sent, the REST answer on the url sent.  Two organisations are served:   *)
(* "mixed", a small one with every kind of repository, commit and fault,   *)
(* and "wide", one with more repositories and authors than the             *)
(* leaderboards hold.                                                      *)
(***************************************************************************)
ORG == <<"o", "r", "g">>

Node(name, archived, disabled, pushedAt, topics) ==
    [name             |-> name,
     nameWithOwner    |-> <<ORG, name>>,
     isArchived       |-> archived,
     isDisabled       |-> disabled,
     pushedAt         |-> pushedAt,
     repositoryTopics |-> topics]

Commit(login, name, date) ==
    [author |-> IF login = "" THEN EmptyDict ELSE [login |-> login],
     commit |-> [author |-> IF name = "" THEN [date |-> date]
                            ELSE [name |-> name, date |-> date]]]

GqlFaults ==
    {[status |-> 502, errors |-> FALSE, nodes |-> <<>>, hasNextPage |-> FALSE,
      endCursor |-> NullCursor],
     [status |-> 200, errors |-> TRUE, nodes |-> <<>>, hasNextPage |-> FALSE,
      endCursor |-> NullCursor]}

GqlOk(nodes, hasNextPage, endCursor) ==
    [status |-> 200, errors |-> FALSE, nodes |-> nodes,
     hasNextPage |-> hasNextPage, endCursor |-> endCursor]

RestFaults ==
    {[status |-> 409, page |-> <<>>, next |-> NoLink],
     [status |-> 403, page |-> <<>>, next |-> NoLink],
     [status |-> 500, page |-> <<>>, next |-> NoLink]}

RestOk(page, next) == [status |-> 200, page |-> page, next |-> next]

\* ---- the organisation "mixed"
RowLetter == <<"A", "b", "C", "d", "e", "f">>

MixedName(k, j) == <<RowLetter[k + 1], <<"x", "Y", "z">>[j]>>

TopicDefi == <<"t", "r", "a", "c", "k", "-", "d", "f">>
TopicRust == <<"r", "s">>

MixedNodePages(k) ==
    {<<>>,
     <<Node(MixedName(k, 1), FALSE, FALSE, 6, <<TopicRust>>)>>,
     <<Node(MixedName(k, 1), TRUE, FALSE, 3, <<>>),
       Node(MixedName(k, 2), FALSE, FALSE, NullDate, <<TopicRust, TopicDefi>>),
       Node(MixedName(k, 3), FALSE, TRUE, 1, <<>>)>>}

MixedListing(c) ==
    GqlFaults \cup
    {GqlOk(nodes, more, c + 1) :
        nodes \in MixedNodePages(c),
        more \in IF c + 1 < MaxRepoPages THEN BOOLEAN ELSE {FALSE}}

MixedCommitPages ==
    {<<>>,
     <<Commit("alice", "Alice A", 3)>>,
     <<Commit("", "", 2), Commit("", "alice", 5), Commit("bob", "Bob", 4)>>}

MixedCommits(u) ==
    RestFaults \cup
    UNION {{RestOk(page, next) :
               next \in IF page # <<>> /\ u.page < MaxCommitPages
                        THEN {NoLink, u.page + 1} ELSE {NoLink}} :
           page \in MixedCommitPages}

MixedRaw == <<[track |-> <<"d", "a", "o">>, repos |-> <<<<"a", "X">>, <<"C", "x">>>>],
              [track |-> <<"n", "f", "t">>, repos |-> <<>>]>>

\* ---- the organisation "wide"
WideLetter == <<"a", "b", "c", "d", "e", "f", "g", "h", "i", "j", "k", "l", "m">>
WideU == <<"u01", "u02", "u03", "u04", "u05", "u06", "u07", "u08", "u09", "u10",
           "u11", "u12", "u13">>
WideV == <<"v01", "v02", "v03", "v04", "v05", "v06", "v07", "v08", "v09", "v10",
           "v11", "v12", "v13">>

WideName(i) == <<"W", WideLetter[i]>>

WideIndex(name) == CHOOSE i \in DOMAIN WideLetter : WideName(i) = name

WideNodes(from, to, archived) ==
    [j \in 1..(to - from + 1) |->
        Node(WideName(from + j - 1), (from + j - 1) \in archived, FALSE,
             from + j - 1, <<>>)]

WideListing(c) ==
    IF c = NullCursor
    THEN {GqlOk(WideNodes(1, 4, {}), TRUE, 1), GqlOk(WideNodes(1, 6, {}), TRUE, 1)}
    ELSE {GqlOk(WideNodes(7, 11, {}), FALSE, 2),
          GqlOk(WideNodes(7, 13, {9}), FALSE, 2)}

WideCommits(u) ==
    LET i == WideIndex(u.repo[2])
    IN  {RestOk(<<Commit(WideU[i], "", i)>>, NoLink),
         RestOk(<<Commit(WideU[i], "", 1), Commit(WideV[i], "", 2),
                  Commit("", "core", i), Commit(WideV[i], "", 3)>>, NoLink)}

ListingResponses(c) ==
    IF provider = "mixed" THEN MixedListing(c) ELSE WideListing(c)

CommitResponses(u) ==
    IF provider = "mixed" THEN MixedCommits(u) ELSE WideCommits(u)

(***************************************************************************)
(* Initial states                                                          *)
(***************************************************************************)
NoUrl == [repo |-> <<>>, page |-> 0, params |-> FALSE]
NoProbe == [name |-> <<>>, topics |-> <<>>]

Idle ==
    /\ cursor = NullCursor
    /\ repos = <<>>
    /\ idx = 0
    /\ url = NoUrl
    /\ commits = <<>>
    /\ org_stats = [repos_total |-> 0, repos |-> <<>>]
    /\ repo_activity = <<>>
    /\ contributor_totals = <<>>
    /\ file = <<>>
    /\ gql_log = <<>>
    /\ rest_log = <<>>
    /\ fetched = <<>>
    /\ last_call = "none"
    /\ authors_seen = <<>>
    /\ conflicts = {}
    /\ probe_out = <<>>

\* The module has been imported (track_map loaded) and main() is entered.
Init ==
    /\ provider \in {"mixed", "wide"}
    /\ track_map = LoadTrackMap(EmptyMap, MixedRaw)
    /\ pc = "list"
    /\ probe = NoProbe
    /\ Idle

(***************************************************************************)
(* list_org_repos: one iteration of its while loop, gql included.  The     *)
(* last iteration returns to main, which creates org_stats.                *)
(***************************************************************************)
\* faulty variant: only server errors raise
RaisesForServerError(status) == status >= 500 /\ status < 600

\* r.raise_for_status()
RaisesForStatus(status) == status >= 400 /\ status < 600

RepoRecord(n) ==
    [name     |-> n.name,
     full     |-> n.nameWithOwner,
     archived |-> n.isArchived,
     disabled |-> n.isDisabled,
     pushedAt |-> n.pushedAt,
     topics   |-> n.repositoryTopics]

NextCursor(c, rs) == rs.endCursor

ListPage ==
    /\ pc = "list"
    /\ \E j \in ListingResponses(cursor) :
        /\ gql_log' = Append(gql_log, [cursor |-> cursor, response |-> j])
        /\ IF RaisesForStatus(j.status) \/ j.errors
           THEN /\ pc' = "failed"
                /\ UNCHANGED <<repos, cursor, org_stats>>
           ELSE /\ repos' = repos \o [i \in DOMAIN j.nodes |-> RepoRecord(j.nodes[i])]
                /\ IF ~j.hasNextPage
                   THEN /\ pc' = "repos"
                        /\ org_stats' = [repos_total |-> Len(repos'), repos |-> <<>>]
                        /\ UNCHANGED cursor
                   ELSE /\ cursor' = NextCursor(cursor, j)
                        /\ UNCHANGED <<pc, org_stats>>
    /\ UNCHANGED <<track_map, provider, idx, url, commits, repo_activity,
                   contributor_totals, file, rest_log, fetched, last_call,
                   authors_seen, conflicts, probe, probe_out>>

(***************************************************************************)
(* main, for r in repos: an archived or disabled repository is passed over *)
(***************************************************************************)
SkipRepo ==
    /\ pc = "repos"
    /\ idx < Len(repos)
    /\ Skipped(repos[idx + 1])
    /\ idx' = idx + 1
    /\ UNCHANGED <<track_map, provider, pc, cursor, repos, url, commits, org_stats,
                   repo_activity, contributor_totals, file, gql_log, rest_log,
                   fetched, last_call, authors_seen, conflicts, probe, probe_out>>

(***************************************************************************)
(* commit_activity is entered for the next repository.                     *)
(***************************************************************************)
CallCommitActivity ==
    /\ pc = "repos"
    /\ idx < Len(repos)
    /\ ~Skipped(repos[idx + 1])
    /\ pc' = "commits"
    /\ url' = [repo |-> repos[idx + 1].full, page |-> 1, params |-> TRUE]
    /\ commits' = <<>>
    /\ rest_log' = <<>>
    /\ last_call' = "running"
    /\ fetched' = Append(fetched, repos[idx + 1].name)
    /\ UNCHANGED <<track_map, provider, cursor, repos, idx, org_stats,
                   repo_activity, contributor_totals, file, gql_log, authors_seen,
                   conflicts, probe, probe_out>>

(***************************************************************************)
(* commit_activity: one iteration of its while loop.  When the call        *)
(* returns, main aggregates the commits and moves to the next repository.  *)
(***************************************************************************)
\* faulty variant: commits = page
ExtendReplace(collected, page) == page

\* faulty variant: on 409 the commits collected so far are returned
OnConflictKeep(collected) == collected

\* commits.extend(page)
Extend(collected, page) == collected \o page

\* what commit_activity returns on status 409
OnConflict(collected) == <<>>

NextUrl(u, r) == [repo |-> u.repo, page |-> r.next, params |-> FALSE]

Aggregate(cs, how) ==
    LET r == repos[idx + 1]
        repo_info == RepoInfo(r, cs)
    IN  /\ commits' = cs
        /\ last_call' = how
        /\ authors_seen' = authors_seen \o [i \in DOMAIN cs |-> AuthorOf(cs[i])]
        /\ conflicts' = IF how = "conflict"
                        THEN conflicts \cup {[name |-> r.name, discarded |-> commits # <<>>]}
                        ELSE conflicts
        /\ repo_activity' =
               Append(repo_activity, <<repo_info.name, repo_info.commits_count>>)
        /\ contributor_totals' =
               AddTotals(contributor_totals, CountByAuthor(<<>>, cs))
        /\ org_stats' = [org_stats EXCEPT !.repos = Append(@, repo_info)]
        /\ idx' = idx + 1
        /\ pc' = "repos"
        /\ UNCHANGED url

FetchPage ==
    /\ pc = "commits"
    /\ \E r \in CommitResponses(url) :
        /\ rest_log' = Append(rest_log, [url |-> url, response |-> r])
        /\ IF r.status = 409
           THEN Aggregate(OnConflict(commits), "conflict")
           ELSE IF RaisesForStatus(r.status)
           THEN /\ pc' = "failed"
                /\ UNCHANGED <<url, commits, last_call, repo_activity,
                               contributor_totals, org_stats, idx, authors_seen,
                               conflicts>>
           ELSE IF r.next = NoLink
           THEN Aggregate(Extend(commits, r.page), "complete")
           ELSE /\ commits' = Extend(commits, r.page)
                /\ url' = NextUrl(url, r)
                /\ UNCHANGED <<pc, last_call, repo_activity, contributor_totals,
                               org_stats, idx, authors_seen, conflicts>>
    /\ UNCHANGED <<track_map, provider, cursor, repos, file, gql_log, fetched,
                   probe, probe_out>>

(***************************************************************************)
(* main, after the loop: the leaderboards and the write of stats.json.     *)
(* The document's org, generated_at and window_days are copies of          *)
(* configuration and clock values that nothing else reads; they are left   *)
(* out, as is the window itself (since_iso), which only the upstream reads.*)
(***************************************************************************)
Report ==
    [repos_total  |-> org_stats.repos_total,
     repos        |-> org_stats.repos,
     leaderboards |-> [top_repos_30d        |-> TopReposBoard(repo_activity),
                       top_contributors_30d |-> TopContributorsBoard(contributor_totals)]]

WriteReport ==
    /\ pc = "repos"
    /\ idx = Len(repos)
    /\ file' = <<Report>>
    /\ pc' = "done"
    /\ UNCHANGED <<track_map, provider, cursor, repos, idx, url, commits, org_stats,
                   repo_activity, contributor_totals, gql_log, rest_log, fetched,
                   last_call, authors_seen, conflicts, probe, probe_out>>

Next == ListPage \/ SkipRepo \/ CallCommitActivity \/ FetchPage \/ WriteReport

Spec == Init /\ [][Next]_vars

(***************************************************************************)
(* infer_track called directly, on a bounded family of names, topic lists  *)
(* and track_map.yaml contents.                                            *)
(***************************************************************************)
ProbeTopics ==
    {<<"t", "r", "a", "c", "k", "-", "b", "e">>,
     <<"t", "r", "a", "c", "k", "-">>,
     <<"t", "r", "a", "c", "k", "-", "a", "-", "t", "r", "a", "c", "k", "-", "b">>,
     <<"x", "t", "r", "a", "c", "k", "-", "b">>,
     <<"t", "r", "a", "c", "k">>,
     <<"b", "e">>}

ProbeNames == {<<"R", "x">>, <<"r", "x">>, <<"r", "y">>, <<"C">>}

RawConfigs ==
    {<<>>,
     <<[track |-> <<"d", "a", "o">>, repos |-> <<<<"r", "X">>, <<"c">>>>]>>,
     <<[track |-> <<"d", "a", "o">>, repos |-> <<<<"R", "x">>>>],
       [track |-> <<"n", "f", "t">>, repos |-> <<<<"r", "x">>, <<"r", "y">>>>]>>,
     <<[track |-> <<"d", "a", "o">>, repos |-> <<>>]>>}

RECURSIVE SeqsUpTo(_, _)
SeqsUpTo(S, n) ==
    IF n = 0 THEN {<<>>}
    ELSE LET shorter == SeqsUpTo(S, n - 1)
         IN  shorter \cup {Append(s, x) : s \in shorter, x \in S}

InitTrack ==
    /\ provider = "mixed"
    /\ \E raw \in RawConfigs : track_map = LoadTrackMap(EmptyMap, raw)
    /\ pc = "probe"
    /\ probe \in [name : ProbeNames, topics : SeqsUpTo(ProbeTopics, MaxTopics)]
    /\ Idle

CallInferTrack ==
    /\ pc = "probe"
    /\ probe_out = <<>>
    /\ probe_out' = <<infer_track(probe.name, probe.topics)>>
    /\ UNCHANGED <<track_map, provider, pc, cursor, repos, idx, url, commits,
                   org_stats, repo_activity, contributor_totals, file, gql_log,
                   rest_log, fetched, last_call, authors_seen, conflicts, probe>>

NextTrack == CallInferTrack

TrackSpec == InitTrack /\ [][NextTrack]_vars

(***************************************************************************)
(* Vocabulary of the properties                                            *)
(***************************************************************************)
Written == file # <<>>
Doc == file[1]
TopReposOf(d) == d.leaderboards.top_repos_30d
TopContributorsOf(d) == d.leaderboards.top_contributors_30d

Last(s) == s[Len(s)]
Range(s) == {s[i] : i \in DOMAIN s}

RECURSIVE SumSeq(_)
SumSeq(s) == IF s = <<>> THEN 0 ELSE Head(s) + SumSeq(Tail(s))

SumCommits(entries) == SumSeq([i \in DOMAIN entries |-> entries[i].commits])
CommitTotal(summaries) ==
    SumSeq([i \in DOMAIN summaries |-> summaries[i].commits_count])

RECURSIVE Flatten(_)
Flatten(ss) == IF ss = <<>> THEN <<>> ELSE Head(ss) \o Flatten(Tail(ss))

IsPrefix(s, t) == Len(s) <= Len(t) /\ s = SubSeq(t, 1, Len(s))
NamesOf(s) == [i \in DOMAIN s |-> s[i].name]

\* the repositories of the listing that are neither archived nor disabled, in order
Live(r) == ~r.archived /\ ~r.disabled
LiveNames == NamesOf(SelectSeq(repos, Live))

\* the authors the summaries of a document mention
AuthorsIn(summaries) ==
    UNION {{summaries[i].contributors[j].login : j \in DOMAIN summaries[i].contributors} :
              i \in DOMAIN summaries}

\* the commits a login has in one summary, and in all of them
CommitsIn(summary, login) ==
    SumSeq([j \in DOMAIN summary.contributors |->
               IF summary.contributors[j].login = login
               THEN summary.contributors[j].commits ELSE 0])
CommitsOf(summaries, login) ==
    SumSeq([i \in DOMAIN summaries |-> CommitsIn(summaries[i], login)])

GqlFatal(j) == j.status # 200 \/ j.errors
RestFatal(r) == r.status \notin {200, 409}

(***************************************************************************)
(* C1 (as claimed): in every written report the commits of the entries of  *)
(* top_contributors_30d add up to the commits_count of all repository      *)
(* summaries, whatever the number of distinct authors.                     *)
(***************************************************************************)
C1_ContributorTotalEqualsCommitTotal ==
    Written =>
        SumCommits(TopContributorsOf(Doc)) = CommitTotal(Doc.repos)

(***************************************************************************)
(* C1 (amended): the two sums are equal when the run saw at most 15        *)
(* distinct authors; with more than 15 the leaderboard is cut and its sum  *)
(* is strictly smaller.                                                    *)
(***************************************************************************)
C1_ContributorTotalUpToCap ==
    Written =>
        IF Cardinality(AuthorsIn(Doc.repos)) <= 15
        THEN SumCommits(TopContributorsOf(Doc)) = CommitTotal(Doc.repos)
        ELSE SumCommits(TopContributorsOf(Doc)) < CommitTotal(Doc.repos)

C1_Witness ==
    /\ Written
    /\ Cardinality(AuthorsIn(Doc.repos)) = 15
    /\ Len(TopContributorsOf(Doc)) = 15
    /\ \E i \in DOMAIN TopContributorsOf(Doc) : TopContributorsOf(Doc)[i].commits > 2
    /\ SumCommits(TopContributorsOf(Doc)) = CommitTotal(Doc.repos)

(***************************************************************************)
(* C2: a repository that is archived or disabled is never fetched, never   *)
(* summarised and never ranked; the repositories with both flags false are *)
(* fetched and summarised exactly once each, in enumeration order.         *)
(***************************************************************************)
C2_SkippedReposExcluded ==
    /\ IsPrefix(fetched, LiveNames)
    /\ IsPrefix(NamesOf(org_stats.repos), LiveNames)
    /\ Written =>
        /\ fetched = LiveNames
        /\ NamesOf(Doc.repos) = LiveNames
        /\ \A e \in Range(TopReposOf(Doc)) : e.repo \in Range(LiveNames)

C2_Witness ==
    /\ Written
    /\ \E i \in DOMAIN repos : repos[i].archived
    /\ \E i \in DOMAIN repos : repos[i].disabled
    /\ Len(Doc.repos) >= 1
    /\ Len(Doc.repos) < Len(repos)

(***************************************************************************)
(* C3: top_repos_30d has at most 10 entries and top_contributors_30d at    *)
(* most 15; with at most 10 repositories processed (at most 15 distinct    *)
(* authors) the leaderboard holds every one of them.                       *)
(***************************************************************************)
C3_LeaderboardCaps ==
    Written =>
        /\ Len(TopReposOf(Doc)) <= 10
        /\ Len(TopContributorsOf(Doc)) <= 15
        /\ Len(Doc.repos) <= 10 =>
              /\ Len(TopReposOf(Doc)) = Len(Doc.repos)
              /\ {e.repo : e \in Range(TopReposOf(Doc))} = Range(NamesOf(Doc.repos))
        /\ Cardinality(AuthorsIn(Doc.repos)) <= 15 =>
              /\ Len(TopContributorsOf(Doc)) = Cardinality(AuthorsIn(Doc.repos))
              /\ {e.login : e \in Range(TopContributorsOf(Doc))} = AuthorsIn(Doc.repos)

C3_Witness ==
    /\ Written
    /\ Len(Doc.repos) > 10
    /\ Len(TopReposOf(Doc)) = 10
    /\ Cardinality(AuthorsIn(Doc.repos)) > 15
    /\ Len(TopContributorsOf(Doc)) = 15

(***************************************************************************)
(* C4: both leaderboards are in descending order of commits, entries with  *)
(* equal commits keep their encounter order (enumeration order of the      *)
(* repositories, first-seen order of the authors), and what a leaderboard  *)
(* leaves out ranks behind everything it holds.                            *)
(***************************************************************************)
TotalOf(a) == Cardinality({i \in DOMAIN authors_seen : authors_seen[i] = a})
FirstSeen(a) ==
    CHOOSE i \in DOMAIN authors_seen :
        authors_seen[i] = a /\ \A j \in 1..(i - 1) : authors_seen[j] # a
PosOf(name) == CHOOSE i \in DOMAIN Doc.repos : Doc.repos[i].name = name

Descending(board) ==
    \A i \in 1..(Len(board) - 1) : board[i].commits >= board[i + 1].commits

C4_StableDescendingLeaderboards ==
    Written =>
        LET R == TopReposOf(Doc)
            B == TopContributorsOf(Doc)
            pos == [n \in Range(NamesOf(Doc.repos)) |-> PosOf(n)]
            first == [a \in Range(authors_seen) |-> FirstSeen(a)]
            total == [a \in Range(authors_seen) |-> TotalOf(a)]
        IN  /\ Descending(R)
            /\ Descending(B)
            /\ \A i \in DOMAIN R :
                  /\ R[i].repo \in DOMAIN pos
                  /\ R[i].commits = Doc.repos[pos[R[i].repo]].commits_count
            /\ \A i \in DOMAIN B :
                  /\ B[i].login \in DOMAIN total
                  /\ B[i].commits = total[B[i].login]
            /\ \A i, j \in DOMAIN R :
                  i < j /\ R[i].commits = R[j].commits
                      => pos[R[i].repo] < pos[R[j].repo]
            /\ \A i, j \in DOMAIN B :
                  i < j /\ B[i].commits = B[j].commits
                      => first[B[i].login] < first[B[j].login]
            /\ \A k \in DOMAIN Doc.repos :
                  Doc.repos[k].name \notin {e.repo : e \in Range(R)} =>
                      \A e \in Range(R) :
                          \/ e.commits > Doc.repos[k].commits_count
                          \/ /\ e.commits = Doc.repos[k].commits_count
                             /\ pos[e.repo] < k
            /\ \A a \in Range(authors_seen) :
                  a \notin {e.login : e \in Range(B)} =>
                      \A e \in Range(B) :
                          \/ e.commits > total[a]
                          \/ /\ e.commits = total[a]
                             /\ first[e.login] < first[a]

C4_Witness ==
    /\ Written
    /\ Len(Doc.repos) > 10
    /\ TopReposOf(Doc)[1].commits > TopReposOf(Doc)[10].commits
    /\ \E k \in DOMAIN Doc.repos :
          /\ Doc.repos[k].name \notin {e.repo : e \in Range(TopReposOf(Doc))}
          /\ Doc.repos[k].commits_count = TopReposOf(Doc)[10].commits
    /\ Len(TopContributorsOf(Doc)) = 15
    /\ TopContributorsOf(Doc)[1].commits > TopContributorsOf(Doc)[15].commits
    /\ \E a \in Range(authors_seen) :
          /\ a \notin {e.login : e \in Range(TopContributorsOf(Doc))}
          /\ TotalOf(a) = TopContributorsOf(Doc)[15].commits
    /\ \E i \in 1..14 :
          /\ TopContributorsOf(Doc)[i].commits = TopContributorsOf(Doc)[i + 1].commits
          /\ TopContributorsOf(Doc)[i].login # authors_seen[1]

(***************************************************************************)
(* C5 (as claimed): a repository whose commit list is empty is summarised  *)
(* with commits_count 0, no contributors and last_commit_at = pushedAt; a  *)
(* repository with commits has the greatest commit date as last_commit_at. *)
(* The summary appended last is that of the latest commit_activity call.   *)
(***************************************************************************)
RepoNamed(name) == repos[CHOOSE i \in DOMAIN repos : repos[i].name = name]
DatesOf(cs) == {cs[i].commit.author.date : i \in DOMAIN cs}
GreatestDate(cs) == CHOOSE d \in DatesOf(cs) : \A e \in DatesOf(cs) : e <= d

C5_EmptyRepoFallsBackToPushedAt ==
    last_call \in {"complete", "conflict"} =>
        LET s == Last(org_stats.repos)
        IN  /\ s.commits_count = Len(commits)
            /\ IF commits = <<>>
               THEN /\ s.contributors = <<>>
                    /\ s.last_commit_at = RepoNamed(s.name).pushedAt
               ELSE s.last_commit_at = GreatestDate(commits)

(***************************************************************************)
(* C5 (amended): as claimed, except that the fallback is pushedAt only     *)
(* when the repository has one; when pushedAt is null, last_commit_at is   *)
(* the literal "N/A".                                                      *)
(***************************************************************************)
C5_EmptyRepoFallsBackToPushedAtOrNA ==
    last_call \in {"complete", "conflict"} =>
        LET s == Last(org_stats.repos)
            pushed == RepoNamed(s.name).pushedAt
        IN  /\ s.commits_count = Len(commits)
            /\ IF commits = <<>>
               THEN /\ s.contributors = <<>>
                    /\ s.last_commit_at =
                          IF pushed # NullDate THEN pushed ELSE NotAvailable
               ELSE s.last_commit_at = GreatestDate(commits)

C5_Witness ==
    /\ Written
    /\ \E i \in DOMAIN Doc.repos :
          /\ Doc.repos[i].commits_count = 0
          /\ RepoNamed(Doc.repos[i].name).pushedAt = NullDate
          /\ Doc.repos[i].last_commit_at = NotAvailable
    /\ last_call = "complete"
    /\ Len(commits) > 1
    /\ Last(commits).commit.author.date < GreatestDate(commits)
    /\ Last(Doc.repos).last_commit_at = GreatestDate(commits)
    /\ RepoNamed(Last(Doc.repos).name).pushedAt > GreatestDate(commits)

(***************************************************************************)
(* C6: a fatal answer (GraphQL: an HTTP error or an "errors" field; REST:  *)
(* a status that is neither success nor 409) is the last request of the    *)
(* run, which ends failed with stats.json untouched; stats.json is written *)
(* only when every live repository has been fetched without a fatal answer.*)
(***************************************************************************)
C6_FatalAnswerEndsRunWithoutOutput ==
    /\ \A i \in DOMAIN gql_log :
          GqlFatal(gql_log[i].response) => i = Len(gql_log) /\ pc = "failed"
    /\ \A i \in DOMAIN rest_log :
          RestFatal(rest_log[i].response) => i = Len(rest_log) /\ pc = "failed"
    /\ pc = "failed" => file = <<>> /\ ~ENABLED Next
    /\ Written =>
          /\ pc = "done"
          /\ fetched = LiveNames
          /\ NamesOf(org_stats.repos) = LiveNames
          /\ last_call # "running"

C6_Witness ==
    /\ pc = "failed"
    /\ file = <<>>
    /\ org_stats.repos # <<>>
    /\ Len(rest_log) = 2
    /\ rest_log[1].response.page # <<>>
    /\ RestFatal(rest_log[2].response)

(***************************************************************************)
(* C7: a 409 answer, on the first page or a later one, makes               *)
(* commit_activity return the empty list without an error; the repository  *)
(* is summarised with commits_count 0 and the run goes on to the           *)
(* repositories that remain.                                               *)
(***************************************************************************)
C7_ConflictGivesEmptySummary ==
    /\ (rest_log # <<>> /\ Last(rest_log).response.status = 409) <=>
            last_call = "conflict"
    /\ last_call = "conflict" =>
          /\ commits = <<>>
          /\ pc \in {"repos", "done"}
          /\ Last(org_stats.repos).name = Last(fetched)
    /\ \A c \in conflicts :
          \E i \in DOMAIN org_stats.repos :
              /\ org_stats.repos[i].name = c.name
              /\ org_stats.repos[i].commits_count = 0
              /\ org_stats.repos[i].contributors = <<>>
    /\ Written =>
          /\ NamesOf(Doc.repos) = LiveNames
          /\ \A c \in conflicts :
                \E i \in DOMAIN Doc.repos :
                    Doc.repos[i].name = c.name /\ Doc.repos[i].commits_count = 0

C7_Witness ==
    /\ Written
    /\ \E c \in conflicts :
          /\ c.discarded
          /\ \E i, j \in DOMAIN Doc.repos :
                /\ i < j
                /\ Doc.repos[i].name = c.name
                /\ Doc.repos[i].commits_count = 0
                /\ Doc.repos[j].commits_count > 0

(***************************************************************************)
(* C8 (as claimed): infer_track returns the first topic that starts with   *)
(* "track-" without that leading prefix; without such a topic, the         *)
(* track_map value of the repository name compared case-insensitively;     *)
(* otherwise None.                                                         *)
(***************************************************************************)
TrackTopics(topics) == {i \in DOMAIN topics : StartsWith(topics[i], TrackPrefix)}

Suffix(topic) == SubSeq(topic, Len(TrackPrefix) + 1, Len(topic))

MappedKeys(name) == {k \in DOMAIN track_map : Lower(k) = Lower(name)}

ClaimedTrack(name, topics) ==
    IF TrackTopics(topics) # {}
    THEN Suffix(topics[CHOOSE i \in TrackTopics(topics) :
                           \A j \in TrackTopics(topics) : i <= j])
    ELSE IF MappedKeys(name) # {}
    THEN track_map[CHOOSE k \in MappedKeys(name) : TRUE]
    ELSE None

C8_InferTrackReturnsSuffixOrMapping ==
    probe_out # <<>> => probe_out[1] = ClaimedTrack(probe.name, probe.topics)

(***************************************************************************)
(* C9: every request after the first carries the cursor (the "next" link)  *)
(* of the answer before it, no page is requested twice, a loop stops at    *)
(* the first answer without a further page, what it returns is the         *)
(* concatenation of the pages in order, and a loop makes no more requests  *)
(* than the upstream's chain has pages.                                    *)
(***************************************************************************)
C9_Chains ==
    /\ \A i \in DOMAIN gql_log :
          /\ gql_log[i].cursor =
                IF i = 1 THEN NullCursor ELSE gql_log[i - 1].response.endCursor
          /\ i < Len(gql_log) =>
                /\ ~GqlFatal(gql_log[i].response)
                /\ gql_log[i].response.hasNextPage
          /\ \A j \in DOMAIN gql_log : gql_log[j].cursor = gql_log[i].cursor => j = i
    /\ \A i \in DOMAIN rest_log :
          /\ rest_log[i].url.repo = <<ORG, Last(fetched)>>
          /\ rest_log[i].url.page =
                IF i = 1 THEN 1 ELSE rest_log[i - 1].response.next
          /\ i < Len(rest_log) =>
                /\ rest_log[i].response.status = 200
                /\ rest_log[i].response.next # NoLink
          /\ \A j \in DOMAIN rest_log : rest_log[j].url = rest_log[i].url => j = i

C9_Results ==
    /\ pc = "list" =>
          \/ gql_log = <<>>
          \/ Last(gql_log).response.hasNextPage
    /\ pc \notin {"list", "failed"} =>
          /\ ~Last(gql_log).response.hasNextPage
          /\ NamesOf(repos) =
                NamesOf(Flatten([i \in DOMAIN gql_log |-> gql_log[i].response.nodes]))
          /\ org_stats.repos_total = Len(repos)
    /\ pc = "commits" =>
          /\ commits = Flatten([i \in DOMAIN rest_log |-> rest_log[i].response.page])
          /\ rest_log = <<>> \/ Last(rest_log).response.next # NoLink
    /\ last_call = "complete" =>
          /\ Last(rest_log).response.next = NoLink
          /\ commits = Flatten([i \in DOMAIN rest_log |-> rest_log[i].response.page])

\* The upstream's chains are finite: at most MaxRepoPages and MaxCommitPages
\* pages.  A loop that requests no page twice makes no more requests than that.
C9_Bounded ==
    /\ Len(gql_log) <= MaxRepoPages
    /\ Len(rest_log) <= MaxCommitPages

C9_PaginationCollectsEveryPage == C9_Chains /\ C9_Results /\ C9_Bounded

C9_Witness ==
    /\ Written
    /\ Len(gql_log) = 2
    /\ gql_log[1].response.nodes # <<>>
    /\ gql_log[2].response.nodes # <<>>
    /\ last_call = "complete"
    /\ Len(rest_log) = 2
    /\ rest_log[1].response.page # <<>>
    /\ rest_log[2].response.page # <<>>
    /\ rest_log[1].response.page # rest_log[2].response.page

(***************************************************************************)
(* C10: in a written report every summary's commits_count is the sum of    *)
(* its contributors' commits, every top_repos_30d entry is the name and    *)
(* commits_count of a summary, and every top_contributors_30d entry holds  *)
(* the commits of its login summed over all summaries.                     *)
(***************************************************************************)
C10_AggregatesMatchSummaries ==
    Written =>
        /\ \A i \in DOMAIN Doc.repos :
              Doc.repos[i].commits_count = SumCommits(Doc.repos[i].contributors)
        /\ \A e \in Range(TopReposOf(Doc)) :
              \E i \in DOMAIN Doc.repos :
                  /\ Doc.repos[i].name = e.repo
                  /\ Doc.repos[i].commits_count = e.commits
        /\ \A e \in Range(TopContributorsOf(Doc)) :
              /\ e.login \in AuthorsIn(Doc.repos)
              /\ e.commits = CommitsOf(Doc.repos, e.login)

C10_Witness ==
    /\ Written
    /\ \E e \in Range(TopContributorsOf(Doc)) :
          /\ e.commits >= 3
          /\ \E i, j \in DOMAIN Doc.repos :
                /\ i # j
                /\ CommitsIn(Doc.repos[i], e.login) = 2
                /\ CommitsIn(Doc.repos[j], e.login) >= 1
    /\ \E e \in Range(TopReposOf(Doc)) : e.commits > 3

====
